---- MODULE Spec2Model ----
(***************************************************************************)
(* S3-WebUI backend (backend/app.py): five HTTP handlers in front of one   *)
(* S3 bucket.  Strings are sequences of one-character strings.  The bucket *)
(* is the set of object keys it holds; a listing entry carries key, name   *)
(* and isFolder (size and last_modified are not modelled).                 *)
(*                                                                         *)
(* A request is served in one step (the handler with its storage-client    *)
(* call); the step leaves the request, its response and the number of      *)
(* storage-client calls it made in req, resp and calls.  The client then   *)
(* either takes the response (Respond) or, holding an upload URL, uses it  *)
(* to PUT the object (ClientUpload).  A storage-client call that fails is  *)
(* taken to have had no effect on the bucket.                              *)
(***************************************************************************)
EXTENDS Integers, Sequences, FiniteSets, TLC

VARIABLES S3_BUCKET, bucket, pc, req, resp, calls

vars == <<S3_BUCKET, bucket, pc, req, resp, calls>>

----------------------------------------------------------------------------
(* Bounds                                                                  *)

\* longest object key / request argument considered
MaxKeyLen == 3
\* most objects the bucket holds
MaxObjects == 3
\* entries (keys and common prefixes together) on one list_objects_v2 page;
\* stands for the service's page size of 1000
MaxKeys == 2

\* presigned URLs are valid for one hour
ExpiresIn == 3600

Delimiter == "/"
Chars == {"a", Delimiter}
\* the file and folder names the keys are built from
Names == {<< >>, <<"a">>}
\* os.getenv("S3_BUCKET") with the variable unset
None == "None"
BucketNames == {"bucket", None}

----------------------------------------------------------------------------
(* Strings                                                                 *)

\* code point order of the characters used ("/" is 0x2F, "a" is 0x61)
Ord(c) == IF c = Delimiter THEN 47 ELSE 97

RECURSIVE Less(_, _)
\* s < t in the byte-wise lexicographic order S3 lists keys in
Less(s, t) ==
    IF t = << >> THEN FALSE
    ELSE IF s = << >> THEN TRUE
    ELSE IF Head(s) = Head(t) THEN Less(Tail(s), Tail(t))
    ELSE Ord(Head(s)) < Ord(Head(t))

\* str.startswith
StartsWith(s, p) == Len(p) <= Len(s) /\ SubSeq(s, 1, Len(p)) = p

\* str.endswith("/")
EndsWithDelimiter(s) == Len(s) > 0 /\ s[Len(s)] = Delimiter

\* position of the first delimiter of s, 0 when it has none
FirstDelimiter(s) ==
    IF \E i \in 1..Len(s) : s[i] = Delimiter
    THEN CHOOSE i \in 1..Len(s) :
            s[i] = Delimiter /\ \A j \in 1..(i - 1) : s[j] # Delimiter
    ELSE 0

RECURSIVE Split(_)
\* str.split("/"): the segments between delimiters, empty ones kept
Split(s) ==
    LET i == FirstDelimiter(s)
    IN  IF i = 0 THEN <<s>>
        ELSE <<SubSeq(s, 1, i - 1)>> \o Split(SubSeq(s, i + 1, Len(s)))

\* every string of 1..MaxKeyLen characters whose segments are in Names:
\* the object keys (an S3 key has at least one character)
Keys ==
    {k \in UNION {[1..n -> Chars] : n \in 1..MaxKeyLen} :
        \A i \in 1..Len(Split(k)) : Split(k)[i] \in Names}

\* request arguments: a key, or the empty string
Args == Keys \cup {<< >>}

RECURSIVE SortedSeq(_)
\* the elements of a set of strings in ascending order
SortedSeq(S) ==
    IF S = {} THEN << >>
    ELSE LET m == CHOOSE x \in S : \A y \in S \ {x} : Less(x, y)
         IN  <<m>> \o SortedSeq(S \ {m})

\* the first n elements of a sequence
Take(s, n) == SubSeq(s, 1, IF Len(s) < n THEN Len(s) ELSE n)

----------------------------------------------------------------------------
(* The storage service                                                     *)

\* the storage client accepts the call's parameters: Bucket is a string
\* and Key, when the call has one, is not empty
ParamsValid(bkt_name, key) == bkt_name # None /\ Len(key) >= 1

\* what list_objects_v2(Prefix, Delimiter="/") lists a key as: the key
\* itself, or the common prefix up to the first delimiter after Prefix
RollUp(k, prefix) ==
    LET i == FirstDelimiter(SubSeq(k, Len(prefix) + 1, Len(k)))
    IN  IF i = 0 THEN k ELSE SubSeq(k, 1, Len(prefix) + i)

IsCommonPrefix(x, prefix) ==
    FirstDelimiter(SubSeq(x, Len(prefix) + 1, Len(x))) # 0

\* the first page of list_objects_v2(Bucket, Prefix=prefix, Delimiter="/")
ListObjectsV2(bkt, prefix) ==
    LET matching == {k \in bkt : StartsWith(k, prefix)}
        page == Take(SortedSeq({RollUp(k, prefix) : k \in matching}), MaxKeys)
        IsCP(x) == IsCommonPrefix(x, prefix)
        IsKey(x) == ~IsCommonPrefix(x, prefix)
    IN  [CommonPrefixes |-> SelectSeq(page, IsCP),
         Contents |-> SelectSeq(page, IsKey)]

\* put_object(Key=key)
PutObject(bkt, key) == bkt \cup {key}

\* delete_object(Key=key)
DeleteObject(bkt, key) == bkt \ {key}

\* the bucket has room for key
Room(key) == key \in bucket \/ Cardinality(bucket) < MaxObjects

----------------------------------------------------------------------------
(* Requests and responses                                                  *)

NoReq == [op |-> "none", arg |-> << >>, ok |-> FALSE]
NoResp == [kind |-> "none"]
\* the storage client's exception, passed on by the framework as it is
UpstreamError == [kind |-> "error"]

Request(op, arg, ok) == [op |-> op, arg |-> arg, ok |-> ok]

\* s3_client.generate_presigned_url(method, Params, ExpiresIn=3600)
PresignedUrl(method, key) ==
    [kind |-> "url",
     url |-> [ClientMethod |-> method, Bucket |-> S3_BUCKET, Key |-> key,
              ExpiresIn |-> ExpiresIn]]

\* FolderName taking the last element of the split, [-1], for [-2]
FolderName_last(cp) == Split(cp)[Len(Split(cp))]

\* folder["Prefix"].split("/")[-2]
FolderName(cp) == Split(cp)[Len(Split(cp)) - 1]

\* obj["Key"].split("/")[-1]
FileName(key) == Split(key)[Len(Split(key))]

FolderEntry(cp) == [key |-> cp, name |-> FolderName(cp), isFolder |-> TRUE]

FileEntry(key) == [key |-> key, name |-> FileName(key), isFolder |-> FALSE]

\* the entries appended by the loop over CommonPrefixes
FolderEntries(cps) == [i \in 1..Len(cps) |-> FolderEntry(cps[i])]

\* the entries appended by the loop over Contents
FileEntries(keys) == [i \in 1..Len(keys) |-> FileEntry(keys[i])]

\* ListFiles without the test obj["Key"] != prefix
ListFiles_unfiltered(bkt, prefix) ==
    LET response == ListObjectsV2(bkt, prefix)
    IN  FolderEntries(response.CommonPrefixes)
        \o FileEntries(response.Contents)

\* ListFiles dropping the first of Contents as the marker, whatever its key
ListFiles_skipsFirst(bkt, prefix) ==
    LET response == ListObjectsV2(bkt, prefix)
    IN  FolderEntries(response.CommonPrefixes)
        \o FileEntries(SubSeq(response.Contents, 2, Len(response.Contents)))

\* ListFiles with the two loops in the other order
ListFiles_filesFirst(bkt, prefix) ==
    LET response == ListObjectsV2(bkt, prefix)
        NotPrefix(key) == key # prefix
    IN  FileEntries(SelectSeq(response.Contents, NotPrefix))
        \o FolderEntries(response.CommonPrefixes)

\* the files list list_files builds from one list_objects_v2 response
ListFiles(bkt, prefix) ==
    LET response == ListObjectsV2(bkt, prefix)
        NotPrefix(key) == key # prefix
    IN  FolderEntries(response.CommonPrefixes)
        \o FileEntries(SelectSeq(response.Contents, NotPrefix))

\* NormalizePrefix leaving the prefix as given
NormalizePrefix_asGiven(prefix) == prefix

\* if not prefix.endswith("/"): prefix += "/"
NormalizePrefix(prefix) ==
    IF EndsWithDelimiter(prefix) THEN prefix ELSE prefix \o <<Delimiter>>

DeletedMessage(key) == [kind |-> "message",
                        message |-> key \o <<" deleted successfully">>]

CreatedMessage(prefix) ==
    [kind |-> "message",
     message |-> <<"Folder '">> \o prefix \o <<"' created successfully">>]

----------------------------------------------------------------------------
(* The handlers.  ok is the outcome of the handler's storage-client call.  *)

\* generate_presigned_url creating the object as it issues the URL
generate_presigned_url_creates(filename, ok) ==
    /\ pc = "idle"
    /\ ok => (ParamsValid(S3_BUCKET, filename) /\ Room(filename))
    /\ pc' = "done"
    /\ req' = Request("generate_presigned_url", filename, ok)
    /\ calls' = 1
    /\ bucket' = IF ok THEN PutObject(bucket, filename) ELSE bucket
    /\ resp' = IF ok THEN PresignedUrl("put_object", filename)
               ELSE UpstreamError
    /\ UNCHANGED S3_BUCKET

\* POST /api/generate_presigned_url
generate_presigned_url(filename, ok) ==
    /\ pc = "idle"
    /\ ok => ParamsValid(S3_BUCKET, filename)
    /\ pc' = "done"
    /\ req' = Request("generate_presigned_url", filename, ok)
    /\ calls' = 1
    /\ resp' = IF ok THEN PresignedUrl("put_object", filename)
               ELSE UpstreamError
    /\ UNCHANGED <<S3_BUCKET, bucket>>

\* GET /api/list_files
list_files(prefix, ok) ==
    /\ pc = "idle"
    /\ ok => S3_BUCKET # None
    /\ pc' = "done"
    /\ req' = Request("list_files", prefix, ok)
    /\ calls' = 1
    /\ resp' = IF ok THEN [kind |-> "files", files |-> ListFiles(bucket, prefix)]
               ELSE UpstreamError
    /\ UNCHANGED <<S3_BUCKET, bucket>>

\* GET /api/download_file
download_file(key, ok) ==
    /\ pc = "idle"
    /\ ok => ParamsValid(S3_BUCKET, key)
    /\ pc' = "done"
    /\ req' = Request("download_file", key, ok)
    /\ calls' = 1
    /\ resp' = IF ok THEN PresignedUrl("get_object", key) ELSE UpstreamError
    /\ UNCHANGED <<S3_BUCKET, bucket>>

\* delete_file answering with an error when there is no object at key
delete_file_checked(key, ok) ==
    /\ pc = "idle"
    /\ ok => ParamsValid(S3_BUCKET, key)
    /\ pc' = "done"
    /\ req' = Request("delete_file", key, ok)
    /\ calls' = 1
    /\ bucket' = IF ok THEN DeleteObject(bucket, key) ELSE bucket
    /\ resp' = IF ok /\ key \in bucket THEN DeletedMessage(key)
               ELSE UpstreamError
    /\ UNCHANGED S3_BUCKET

\* delete_file calling delete_object a second time when the first fails
delete_file_retry(key, ok) ==
    /\ pc = "idle"
    /\ ok => ParamsValid(S3_BUCKET, key)
    /\ pc' = "done"
    /\ req' = Request("delete_file", key, ok)
    /\ calls' = IF ok THEN 1 ELSE 2
    /\ bucket' = IF ok THEN DeleteObject(bucket, key) ELSE bucket
    /\ resp' = IF ok THEN DeletedMessage(key) ELSE UpstreamError
    /\ UNCHANGED S3_BUCKET

\* delete_file normalizing its key the way create_folder does
delete_file_normalized(key, ok) ==
    /\ pc = "idle"
    /\ ok => ParamsValid(S3_BUCKET, key)
    /\ pc' = "done"
    /\ req' = Request("delete_file", key, ok)
    /\ calls' = 1
    /\ bucket' = IF ok THEN DeleteObject(bucket, NormalizePrefix(key))
                 ELSE bucket
    /\ resp' = IF ok THEN DeletedMessage(key) ELSE UpstreamError
    /\ UNCHANGED S3_BUCKET

\* DELETE /api/delete_file
delete_file(key, ok) ==
    /\ pc = "idle"
    /\ ok => ParamsValid(S3_BUCKET, key)
    /\ pc' = "done"
    /\ req' = Request("delete_file", key, ok)
    /\ calls' = 1
    /\ bucket' = IF ok THEN DeleteObject(bucket, key) ELSE bucket
    /\ resp' = IF ok THEN DeletedMessage(key) ELSE UpstreamError
    /\ UNCHANGED S3_BUCKET

\* POST /api/create_folder
create_folder(prefix, ok) ==
    /\ pc = "idle"
    /\ NormalizePrefix(prefix) \in Keys
    /\ ok => /\ ParamsValid(S3_BUCKET, NormalizePrefix(prefix))
             /\ Room(NormalizePrefix(prefix))
    /\ pc' = "done"
    /\ req' = Request("create_folder", prefix, ok)
    /\ calls' = 1
    /\ bucket' = IF ok THEN PutObject(bucket, NormalizePrefix(prefix))
                 ELSE bucket
    /\ resp' = IF ok THEN CreatedMessage(NormalizePrefix(prefix))
               ELSE UpstreamError
    /\ UNCHANGED S3_BUCKET

----------------------------------------------------------------------------
(* The client                                                              *)

\* the response reaches the client; the service is ready for a request
Respond ==
    /\ pc = "done"
    /\ pc' = "idle"
    /\ req' = NoReq
    /\ resp' = NoResp
    /\ calls' = 0
    /\ UNCHANGED <<S3_BUCKET, bucket>>

\* the client PUTs an object to the upload URL it was given
ClientUpload ==
    /\ pc = "done"
    /\ req.op = "generate_presigned_url"
    /\ resp.kind = "url"
    /\ Room(resp.url.Key)
    /\ bucket' = PutObject(bucket, resp.url.Key)
    /\ pc' = "idle"
    /\ req' = NoReq
    /\ resp' = NoResp
    /\ calls' = 0
    /\ UNCHANGED S3_BUCKET

----------------------------------------------------------------------------
(* Specification                                                           *)

\* the module has been imported: S3_BUCKET is whatever the environment
\* holds, the service accepts requests, the bucket is empty
Init ==
    /\ S3_BUCKET \in BucketNames
    /\ bucket = {}
    /\ pc = "idle"
    /\ req = NoReq
    /\ resp = NoResp
    /\ calls = 0

Next ==
    \/ \E filename \in Args, ok \in BOOLEAN : generate_presigned_url(filename, ok)
    \/ \E prefix \in Args, ok \in BOOLEAN : list_files(prefix, ok)
    \/ \E key \in Args, ok \in BOOLEAN : download_file(key, ok)
    \/ \E key \in Args, ok \in BOOLEAN : delete_file(key, ok)
    \/ \E prefix \in Args, ok \in BOOLEAN : create_folder(prefix, ok)
    \/ Respond
    \/ ClientUpload

Spec == Init /\ [][Next]_vars

----------------------------------------------------------------------------
(* Properties                                                              *)

\* the request just served, in the state its handler left
Served(op) == pc = "done" /\ req.op = op
\* the step serves a request
Serves(op) == pc = "idle" /\ pc' = "done" /\ req'.op = op
\* the step is the client's PUT of key to an upload URL
Uploads(key) ==
    /\ pc = "done" /\ pc' = "idle"
    /\ req.op = "generate_presigned_url" /\ req.ok /\ req.arg = key
    /\ bucket' # bucket

Slash == <<Delimiter>>
HasFileEntry(files, key) ==
    \E i \in 1..Len(files) : files[i].key = key /\ ~files[i].isFolder
HasFolderEntry(files, key) ==
    \E i \in 1..Len(files) : files[i].key = key /\ files[i].isFolder

\* C1: a list_files response holds no entry, folder or file, whose key is
\* the requested prefix; the marker object at the prefix is not listed.
C1_PrefixNotListed ==
    (Served("list_files") /\ req.ok) =>
        \A i \in 1..Len(resp.files) : resp.files[i].key # req.arg

\* a listing of a folder whose marker object exists, with entries in it
C1_Witness ==
    /\ Served("list_files") /\ req.ok
    /\ req.arg \in bucket /\ EndsWithDelimiter(req.arg)
    /\ Len(resp.files) > 0

\* the key create_folder is to write for a prefix
MarkerKey(prefix) ==
    IF prefix # << >> /\ prefix[Len(prefix)] = "/" THEN prefix
    ELSE prefix \o Slash

\* C2: create_folder(prefix) puts its marker at the prefix made to end
\* with "/", for "foo" as for "foo/", and adds nothing else: a repeated
\* call leaves the bucket as the first call left it.
C2_CreateFolderNormalizes ==
    [][(Serves("create_folder") /\ req'.ok) =>
          /\ bucket' = bucket \cup {MarkerKey(req'.arg)}
          /\ (MarkerKey(req'.arg) \in bucket => bucket' = bucket)]_vars

\* create_folder("a") has put the marker at "a/"
C2_Witness ==
    /\ Served("create_folder") /\ req.ok
    /\ req.arg = <<"a">>
    /\ <<"a", "/">> \in bucket /\ <<"a">> \notin bucket

\* the part of key after prefix
Rest(key, prefix) == SubSeq(key, Len(prefix) + 1, Len(key))
\* key is prefix followed by a non-empty name without "/"
DirectlyUnder(key, prefix) ==
    /\ Len(key) > Len(prefix)
    /\ SubSeq(key, 1, Len(prefix)) = prefix
    /\ \A i \in (Len(prefix) + 1)..Len(key) : key[i] # "/"
\* the objects and folders directly under prefix, as the service lists them
Listed(prefix) == {RollUp(k, prefix) : k \in {x \in bucket : StartsWith(x, prefix)}}

C4_DeleteIdempotent ==
    [][(Serves("delete_file") /\ req'.ok) =>
          /\ resp' = [kind |-> "message",
                      message |-> req'.arg \o <<" deleted successfully">>]
          /\ bucket' = bucket \ {req'.arg}
          /\ (req'.arg \notin bucket => bucket' = bucket)]_vars

\* a successful delete_file with other objects left in the bucket
C4_Witness ==
    /\ Served("delete_file") /\ req.ok
    /\ resp = [kind |-> "message",
               message |-> req.arg \o <<" deleted successfully">>]
    /\ bucket # {}

\* the keys of a sequence of entries
EntryKeys(files) == [i \in 1..Len(files) |-> files[i].key]

C6_UrlsChangeNothing ==
    [][/\ (Serves("generate_presigned_url") \/ Serves("download_file"))
              => bucket' = bucket
       /\ (Serves("download_file") /\ req'.ok)
              => /\ resp'.kind = "url"
                 /\ resp'.url.ClientMethod = "get_object"
                 /\ resp'.url.Key = req'.arg
       /\ (Serves("generate_presigned_url") /\ req'.ok)
              => /\ resp'.kind = "url"
                 /\ resp'.url.ClientMethod = "put_object"
                 /\ resp'.url.Key = req'.arg
       /\ \A K \in bucket' \ bucket :
              Uploads(K) \/ (Serves("create_folder") /\ req'.ok)]_vars

\* a download URL issued for a key that has no object
C6_Witness ==
    /\ Served("download_file") /\ req.ok
    /\ req.arg \notin bucket
    /\ resp.kind = "url" /\ resp.url.Key = req.arg

\* C7: no storage-client call is made with the bucket name missing.
C7_NoCallWithoutBucket ==
    calls > 0 => S3_BUCKET # None

\* C8: a request makes one storage-client call; when the call fails the
\* response is the failure, the bucket is as it was, and nothing the
\* request does afterwards changes the bucket.
C8_OneCallNoRetry ==
    [][/\ (pc = "idle" /\ pc' = "done")
              => /\ calls' = 1
                 /\ ~req'.ok => (resp' = [kind |-> "error"] /\ bucket' = bucket)
       /\ (pc = "done" /\ ~req.ok) => bucket' = bucket]_vars

\* a delete_file whose storage call failed: the object is still there
C8_Witness ==
    /\ Served("delete_file") /\ ~req.ok
    /\ S3_BUCKET # None
    /\ req.arg \in bucket
    /\ calls = 1 /\ resp.kind = "error"

\* the common prefix without its trailing delimiter
StripDelimiter(s) ==
    IF s # << >> /\ s[Len(s)] = "/" THEN SubSeq(s, 1, Len(s) - 1) ELSE s
\* the last path segment: what follows the last "/"
LastSegment(s) ==
    LET slashes == {i \in 1..Len(s) : s[i] = "/"}
        last == IF slashes = {} THEN 0
                ELSE CHOOSE i \in slashes : \A j \in slashes : j <= i
    IN  SubSeq(s, last + 1, Len(s))

\* C9: the name of a folder entry is the last path segment of its common
\* prefix with the trailing delimiter stripped.
C9_FolderName ==
    (Served("list_files") /\ req.ok) =>
        \A i \in 1..Len(resp.files) :
            resp.files[i].isFolder =>
                resp.files[i].name = LastSegment(StripDelimiter(resp.files[i].key))

\* a listing with the folder "a//", a common prefix with consecutive
\* delimiters
C9_Witness ==
    /\ Served("list_files") /\ req.ok
    /\ req.arg = <<"a", "/">>
    /\ \E i \in 1..Len(resp.files) :
          resp.files[i] = [key |-> <<"a", "/", "/">>, name |-> << >>,
                           isFolder |-> TRUE]

\* the prefix of the folder a marker key K sits in
Parent(K) == SubSeq(K, 1, Len(K) - Len(LastSegment(StripDelimiter(K))) - 1)

====
